---- MODULE Spec2Model ----
(***************************************************************************)
(* A model of the coding agent of w2/coding_agent_from_scratch_lecture.py: *)
(* tool discovery, prompt rendering, the textual tool-invocation parser,   *)
(* the result normalizer and the conversation loop.                        *)
(*                                                                         *)
(* Text is a sequence of tokens. A token is a TLA+ string standing for the *)
(* characters it holds; " ", "\t" and "\n" are the whitespace tokens and   *)
(* "(", ")", "{", "}", "[", "]", ",", ":" the punctuation the parser and   *)
(* the JSON codec look at. Python values are tagged records (PyStr, ...).  *)
(***************************************************************************)
EXTENDS Integers, Sequences, FiniteSets, TLC

VARIABLES
    pc,               \* position of the single control thread
    server_url,       \* mcp_client.server_url
    TOOL_REGISTRY,    \* the global registry: a dict, kept as a sequence of MCPToolInfo in insertion order
    system_prompt,    \* local of run_coding_agent_loop
    conversation,     \* local of run_coding_agent_loop: sequence of [role, content]
    tool_invocations, \* local: the invocations of the reply being processed
    inv_idx,          \* how many of tool_invocations the for loop has finished
    inflight,         \* <<>> or <<request>>: the remote request the thread is blocked in
    connections,      \* number of open fastmcp Client connections
    list_calls,       \* number of list_tools requests sent to the remote service
    tool_calls,       \* number of call_tool requests sent to the remote service
    llm_messages,     \* the messages argument of the latest execute_llm_call
    model_calls,      \* number of execute_llm_call calls made
    inputs_read,      \* number of operator lines input() returned
    assistant_response, \* local: the latest reply of the model
    resps,            \* the values resp took in the current for loop, in order
    stdout,           \* what print and input wrote, one entry per call
    exc,              \* "" or the exception that propagated out of run_coding_agent_loop
    fn_input,         \* the argument of a function called on its own
    fn_output,        \* what that function returned
    fn_calls          \* the calls that function made to the language model

vars == <<pc, server_url, TOOL_REGISTRY, system_prompt, conversation,
          tool_invocations, inv_idx, inflight, connections, list_calls,
          tool_calls, llm_messages, model_calls, inputs_read,
          assistant_response, resps, stdout, exc, fn_input, fn_output, fn_calls>>

\* the variables run_coding_agent_loop does not touch
harness == <<fn_input, fn_output, fn_calls>>

(***************************************************************************)
(* Bounds of the exploration.                                              *)
(***************************************************************************)
MaxInputs == 2

MaxModelCalls == 2

(***************************************************************************)
(* Python values.                                                          *)
(***************************************************************************)
PyNone == [k |-> "none"]

PyStr(s) == [k |-> "str", s |-> s]

PyInt(n) == [k |-> "int", n |-> n]

PyBool(b) == [k |-> "bool", b |-> b]

PyList(items) == [k |-> "list", items |-> items]

\* a dict: its <<key, value>> pairs in insertion order, keys are str
PyDict(pairs) == [k |-> "dict", pairs |-> pairs]

\* any other object (a dataclass, a datetime, a pydantic AnyUrl, ...)
PyObj(repr) == [k |-> "obj", repr |-> repr]

IsDict(v) == v.k = "dict"

\* bool(v) for the values the code tests for truth
Truthy(v) ==
    CASE v.k = "none" -> FALSE
      [] v.k = "str" -> v.s # ""
      [] v.k = "int" -> v.n # 0
      [] v.k = "bool" -> v.b
      [] v.k = "list" -> v.items # <<>>
      [] v.k = "dict" -> v.pairs # <<>>
      [] OTHER -> TRUE

(***************************************************************************)
(* Text helpers: str.strip, str.splitlines, str.join, str.split(sep, 1).   *)
(***************************************************************************)
IsWs(t) == t \in {" ", "\t", "\n"}

RECURSIVE LStrip(_)
LStrip(s) == IF s # <<>> /\ IsWs(Head(s)) THEN LStrip(Tail(s)) ELSE s

RECURSIVE RStrip(_)
RStrip(s) ==
    IF s # <<>> /\ IsWs(s[Len(s)]) THEN RStrip(SubSeq(s, 1, Len(s) - 1)) ELSE s

Strip(s) == RStrip(LStrip(s))

RECURSIVE SplitAcc(_, _, _)
SplitAcc(text, cur, acc) ==
    IF text = <<>>
    THEN IF cur = <<>> THEN acc ELSE Append(acc, cur)
    ELSE IF Head(text) = "\n"
         THEN SplitAcc(Tail(text), <<>>, Append(acc, cur))
         ELSE SplitAcc(Tail(text), Append(cur, Head(text)), acc)

SplitLines(text) == SplitAcc(text, <<>>, <<>>)

\* the characters of a token sequence as one string
RECURSIVE Concat(_)
Concat(s) == IF s = <<>> THEN "" ELSE Head(s) \o Concat(Tail(s))

\* sep.join(parts), parts a sequence of token sequences
RECURSIVE Join(_, _)
Join(parts, sep) ==
    IF parts = <<>> THEN <<>>
    ELSE IF Len(parts) = 1 THEN parts[1]
    ELSE parts[1] \o sep \o Join(Tail(parts), sep)

\* index of the first token t in s, 0 when there is none
IndexOf(s, t) ==
    IF \E i \in 1..Len(s) : s[i] = t
    THEN CHOOSE i \in 1..Len(s) : s[i] = t /\ \A j \in 1..(i - 1) : s[j] # t
    ELSE 0

Range(s) == {s[i] : i \in 1..Len(s)}

IsPrefix(s, t) == Len(s) <= Len(t) /\ SubSeq(t, 1, Len(s)) = s

(***************************************************************************)
(* json.dumps and json.loads over token sequences. The strings and the     *)
(* numbers the explored texts may hold are listed; none of the strings     *)
(* needs a JSON escape.                                                    *)
(***************************************************************************)
StrAtoms == {"", "text", "hi", "a", "path"}

IntAtoms == {0, 1, 2}

Quote(s) == "\"" \o s \o "\""

\* TypeError of json.dumps: some value inside v has no JSON encoding
RECURSIVE JsonEncodable(_)
JsonEncodable(v) ==
    CASE v.k = "obj" -> FALSE
      [] v.k = "list" -> \A i \in 1..Len(v.items) : JsonEncodable(v.items[i])
      [] v.k = "dict" -> \A i \in 1..Len(v.pairs) : JsonEncodable(v.pairs[i][2])
      [] OTHER -> TRUE

\* the text json.dumps(v) returns for an encodable v (default separators)
RECURSIVE JsonText(_)
JsonText(v) ==
    CASE v.k = "none" -> <<"null">>
      [] v.k = "str" -> <<Quote(v.s)>>
      [] v.k = "int" -> <<ToString(v.n)>>
      [] v.k = "bool" -> IF v.b THEN <<"true">> ELSE <<"false">>
      [] v.k = "list" ->
            <<"[">>
            \o Join([i \in 1..Len(v.items) |-> JsonText(v.items[i])], <<",", " ">>)
            \o <<"]">>
      [] v.k = "dict" ->
            <<"{">>
            \o Join([i \in 1..Len(v.pairs) |->
                        <<Quote(v.pairs[i][1]), ":", " ">> \o JsonText(v.pairs[i][2])],
                    <<",", " ">>)
            \o <<"}">>

\* json.dumps(v): the text, or the TypeError it raises
JsonDumps(v) ==
    IF JsonEncodable(v) THEN [ok |-> TRUE, text |-> JsonText(v)] ELSE [ok |-> FALSE]

ParseFail == [ok |-> FALSE]

SkipWs(ts, i) ==
    CHOOSE j \in i..(Len(ts) + 1) :
        /\ \A m \in i..(j - 1) : IsWs(ts[m])
        /\ (j = Len(ts) + 1 \/ ~IsWs(ts[j]))

IsStrLit(tok) == \E s \in StrAtoms : tok = Quote(s)

StrOf(tok) == CHOOSE s \in StrAtoms : tok = Quote(s)

IsAtom(tok) ==
    \/ IsStrLit(tok)
    \/ \E n \in IntAtoms : tok = ToString(n)
    \/ tok \in {"true", "false", "null"}

AtomOf(tok) ==
    IF IsStrLit(tok) THEN PyStr(StrOf(tok))
    ELSE IF tok = "true" THEN PyBool(TRUE)
    ELSE IF tok = "false" THEN PyBool(FALSE)
    ELSE IF tok = "null" THEN PyNone
    ELSE PyInt(CHOOSE n \in IntAtoms : tok = ToString(n))

\* d[key] = val on a dict kept as pairs: a repeated key keeps its place
DictSet(pairs, key, val) ==
    IF \E i \in 1..Len(pairs) : pairs[i][1] = key
    THEN [i \in 1..Len(pairs) |->
            IF pairs[i][1] = key THEN <<key, val>> ELSE pairs[i]]
    ELSE Append(pairs, <<key, val>>)

RECURSIVE ParseValue(_, _), ParseMembers(_, _, _), ParseElements(_, _, _)

\* one JSON value starting at ts[i0]: [ok, val, next]
ParseValue(ts, i0) ==
    LET i == SkipWs(ts, i0) IN
    IF i > Len(ts) THEN ParseFail
    ELSE IF ts[i] = "{" THEN
        LET j == SkipWs(ts, i + 1) IN
        IF j <= Len(ts) /\ ts[j] = "}"
        THEN [ok |-> TRUE, val |-> PyDict(<<>>), next |-> j + 1]
        ELSE ParseMembers(ts, j, <<>>)
    ELSE IF ts[i] = "[" THEN
        LET j == SkipWs(ts, i + 1) IN
        IF j <= Len(ts) /\ ts[j] = "]"
        THEN [ok |-> TRUE, val |-> PyList(<<>>), next |-> j + 1]
        ELSE ParseElements(ts, j, <<>>)
    ELSE IF IsAtom(ts[i]) THEN [ok |-> TRUE, val |-> AtomOf(ts[i]), next |-> i + 1]
    ELSE ParseFail

\* the members of an object after "{" (or after a ","), up to its "}"
ParseMembers(ts, i0, acc) ==
    LET i == SkipWs(ts, i0) IN
    IF i > Len(ts) \/ ~IsStrLit(ts[i]) THEN ParseFail
    ELSE
        LET c == SkipWs(ts, i + 1) IN
        IF c > Len(ts) \/ ts[c] # ":" THEN ParseFail
        ELSE
            LET r == ParseValue(ts, c + 1) IN
            IF ~r.ok THEN ParseFail
            ELSE
                LET e == SkipWs(ts, r.next)
                    got == DictSet(acc, StrOf(ts[i]), r.val)
                IN
                IF e > Len(ts) THEN ParseFail
                ELSE IF ts[e] = "}" THEN [ok |-> TRUE, val |-> PyDict(got), next |-> e + 1]
                ELSE IF ts[e] = "," THEN ParseMembers(ts, e + 1, got)
                ELSE ParseFail

\* the elements of an array after "[" (or after a ","), up to its "]"
ParseElements(ts, i0, acc) ==
    LET r == ParseValue(ts, i0) IN
    IF ~r.ok THEN ParseFail
    ELSE
        LET e == SkipWs(ts, r.next)
            got == Append(acc, r.val)
        IN
        IF e > Len(ts) THEN ParseFail
        ELSE IF ts[e] = "]" THEN [ok |-> TRUE, val |-> PyList(got), next |-> e + 1]
        ELSE IF ts[e] = "," THEN ParseElements(ts, e + 1, got)
        ELSE ParseFail

\* json.loads(text): [ok, val], ok false for the JSONDecodeError
JsonLoads(ts) ==
    LET r == ParseValue(ts, 1) IN
    IF r.ok /\ SkipWs(ts, r.next) > Len(ts)
    THEN [ok |-> TRUE, val |-> r.val]
    ELSE ParseFail

(***************************************************************************)
(* extract_tool_invocations                                                *)
(***************************************************************************)
\* the for loop taking every marked line with a "(" as an invocation without
\* arguments, whatever follows the "("
ParseLineLenient(raw_line) ==
    LET line == Strip(raw_line) IN
    IF line = <<>> \/ Head(line) # "tool:" THEN <<>>
    ELSE
        LET after == Strip(Tail(line))
            p == IndexOf(after, "(")
        IN
        IF p = 0 THEN <<>>
        ELSE <<[name |-> Concat(Strip(SubSeq(after, 1, p - 1))), args |-> PyDict(<<>>)]>>

\* the body of the for loop for one raw line: the invocations it appends
ParseLine(raw_line) ==
    LET line == Strip(raw_line) IN
    IF line = <<>> \/ Head(line) # "tool:" THEN <<>>
    ELSE
        LET after == Strip(Tail(line))
            p == IndexOf(after, "(")
        IN
        IF p = 0 THEN <<>>
        ELSE
            LET name == Concat(Strip(SubSeq(after, 1, p - 1)))
                rest == SubSeq(after, p + 1, Len(after))
            IN
            IF rest = <<>> \/ rest[Len(rest)] # ")" THEN <<>>
            ELSE
                LET json_str == Strip(SubSeq(rest, 1, Len(rest) - 1))
                    r == JsonLoads(json_str)
                IN
                IF r.ok THEN <<[name |-> name, args |-> r.val]>> ELSE <<>>

\* the for loop leaving at the first line that appends nothing
RECURSIVE ExtractUntilSkippedLine(_)
ExtractUntilSkippedLine(lines) ==
    IF lines = <<>> \/ ParseLine(Head(lines)) = <<>> THEN <<>>
    ELSE ParseLine(Head(lines)) \o ExtractUntilSkippedLine(Tail(lines))

RECURSIVE ExtractFromLines(_)
ExtractFromLines(lines) ==
    IF lines = <<>> THEN <<>>
    ELSE ParseLine(Head(lines)) \o ExtractFromLines(Tail(lines))

extract_tool_invocations(text) == ExtractFromLines(SplitLines(text))

(***************************************************************************)
(* The remote tool service: what list_tools and call_tool may answer.      *)
(***************************************************************************)
DEFAULT_MCP_SERVER_URL == "http://127.0.0.1:8000/mcp"

\* the values SIMPLE_MCP_SERVER_URL configures
ServerUrls == {DEFAULT_MCP_SERVER_URL, "http://tools.example:9000/mcp"}

\* a JSON-schema property: [name, has_type, type]
Prop(name, has_type, type) == [name |-> name, has_type |-> has_type, type |-> type]

\* a remote tool: description is None or a text; an absent or empty
\* inputSchema, "properties" or "required" is the empty one
RemoteTool(name, desc_none, desc, props, required) ==
    [name |-> name,
     description |-> [none |-> desc_none, text |-> desc],
     inputSchema |-> [properties |-> props, required |-> required]]

EchoTool ==
    RemoteTool("echo", FALSE, <<" ", "Echo the text.", "\n">>,
               <<Prop("text", TRUE, "string")>>, <<"text">>)

StatTool ==
    RemoteTool("stat", TRUE, <<>>,
               <<Prop("path", TRUE, "string"), Prop("follow", FALSE, "")>>, <<>>)

PingTool == RemoteTool("ping", FALSE, <<>>, <<>>, <<>>)

\* the catalogs list_tools may return
Catalogs == {<<>>, <<EchoTool>>, <<StatTool, EchoTool, PingTool>>}

\* a content block: what hasattr(block, "text"), block.text,
\* hasattr(block, "model_dump"), block.model_dump(exclude_none=True) and
\* str(block) give
Block(has_text, text, has_model_dump, dump, repr) ==
    [has_text |-> has_text, text |-> text, has_model_dump |-> has_model_dump,
     dump |-> dump, repr |-> repr]

TextBlock(t) ==
    Block(TRUE, PyStr(t), TRUE,
          PyDict(<< <<"type", PyStr("text")>>, <<"text", PyStr(t)>> >>),
          "type='text' text='" \o t \o "'")

ImageBlock ==
    Block(FALSE, PyNone, TRUE,
          PyDict(<< <<"type", PyStr("image")>>, <<"data", PyStr("aGk=")>>,
                    <<"mimeType", PyStr("image/png")>> >>),
          "type='image' data='aGk=' mimeType='image/png'")

\* an embedded resource: its dump holds the pydantic AnyUrl of the resource
ResourceBlock ==
    Block(FALSE, PyNone, TRUE,
          PyDict(<< <<"type", PyStr("resource")>>,
                    <<"resource",
                      PyDict(<< <<"uri", PyObj("AnyUrl('file:///a')")>>,
                                <<"text", PyStr("hi")>> >>)>> >>),
          "type='resource' resource=TextResourceContents(uri=AnyUrl('file:///a'), text='hi')")

\* a CallToolResult
RawResult(is_error, content, data, structured_content) ==
    [is_error |-> is_error, content |-> content, data |-> data,
     structured_content |-> structured_content]

HiDict == PyDict(<< <<"result", PyStr("hi")>> >>)

\* the results call_tool may return (raise_on_error=False), by tool
EchoResults ==
    { RawResult(FALSE, <<TextBlock("hi")>>, PyNone, PyNone),
      RawResult(FALSE, <<TextBlock("hi")>>, PyStr("hi"), HiDict) }

StatResults ==
    { RawResult(TRUE, <<TextBlock("boom")>>, PyNone, PyNone),
      RawResult(FALSE, <<TextBlock("a")>>, PyObj("Root(size=1)"),
                PyDict(<< <<"size", PyInt(1)>> >>)),
      RawResult(FALSE, <<>>, PyNone, PyNone),
      RawResult(FALSE, <<TextBlock("a"), ImageBlock>>, PyNone, PyDict(<<>>)) }

PingResults ==
    { RawResult(FALSE, <<ResourceBlock>>, PyNone, PyNone),
      RawResult(TRUE, <<>>, PyNone, PyNone) }

RawResults(name) ==
    CASE name = "echo" -> EchoResults
      [] name = "stat" -> StatResults
      [] OTHER -> PingResults

\* the exceptions a remote request may raise, as str(exc)
RemoteErrors == {"Client failed to connect: All connection attempts failed"}

(***************************************************************************)
(* refresh_tool_registry, format_input_schema, the prompt builder          *)
(***************************************************************************)
MCPToolInfo(tool) ==
    [name |-> tool.name, description |-> tool.description,
     input_schema |-> tool.inputSchema]

\* the dict comprehension {tool.name: MCPToolInfo(...) for tool in remote_tools}
RECURSIVE BuildRegistry(_, _)
BuildRegistry(remote_tools, acc) ==
    IF remote_tools = <<>> THEN acc
    ELSE
        LET info == MCPToolInfo(Head(remote_tools))
            got == IF \E i \in 1..Len(acc) : acc[i].name = info.name
                   THEN [i \in 1..Len(acc) |->
                            IF acc[i].name = info.name THEN info ELSE acc[i]]
                   ELSE Append(acc, info)
        IN BuildRegistry(Tail(remote_tools), got)

\* refresh_tool_registry adding the listed tools to the registry it finds
RegistryMerged(registry, remote_tools) == BuildRegistry(remote_tools, registry)

\* refresh_tool_registry, lines 82-89: the registry after list_tools returned
RegistryAfterSuccess(registry, remote_tools) == BuildRegistry(remote_tools, <<>>)

\* refresh_tool_registry without the assignment of line 80
RegistryKept(registry) == registry

\* refresh_tool_registry, line 80: the registry after list_tools raised
RegistryAfterFailure(registry) == <<>>

RegistryNames(registry) == {registry[i].name : i \in 1..Len(registry)}

RegistryGet(registry, name) ==
    registry[CHOOSE i \in 1..Len(registry) : registry[i].name = name]

\* the for loop of lines 98-103 without the test of line 100
FormatPropertyAllOptional(prop, required) ==
    prop.name \o ": Optional[" \o (IF prop.has_type THEN prop.type ELSE "any") \o "]"

\* lines 99-103: what is appended to formatted for one property
FormatProperty(prop, required) ==
    LET type_name == IF prop.has_type THEN prop.type ELSE "any" IN
    IF prop.name \in required
    THEN prop.name \o ": " \o type_name
    ELSE prop.name \o ": Optional[" \o type_name \o "]"

\* ", ".join(formatted) for a sequence of strings
RECURSIVE JoinStr(_, _)
JoinStr(parts, sep) ==
    IF parts = <<>> THEN ""
    ELSE IF Len(parts) = 1 THEN parts[1]
    ELSE parts[1] \o sep \o JoinStr(Tail(parts), sep)

format_input_schema(schema) ==
    IF schema.properties = <<>> THEN "(no parameters)"
    ELSE "(" \o JoinStr([i \in 1..Len(schema.properties) |->
                            FormatProperty(schema.properties[i], Range(schema.required))],
                        ", ") \o ")"

get_tool_str_representation(registry, tool_name) ==
    LET tool == RegistryGet(registry, tool_name)
        description ==
            Strip(IF tool.description.none \/ tool.description.text = <<>>
                  THEN <<"No description provided.">>
                  ELSE tool.description.text)
        signature == format_input_schema(tool.input_schema)
    IN <<"\n", "    Name: ", tool.name, "\n", "    Description: ">>
       \o description
       \o <<"\n", "    Signature: ", signature, "\n", "    ">>

RECURSIVE ToolListRepr(_, _)
ToolListRepr(registry, i) ==
    IF i > Len(registry) THEN <<>>
    ELSE <<"TOOL", "\n", "===">>
         \o get_tool_str_representation(registry, registry[i].name)
         \o <<"\n", "===============", "\n">>
         \o ToolListRepr(registry, i + 1)

\* SYSTEM_PROMPT before and after {tool_list_repr}
SYSTEM_PROMPT_HEAD ==
    <<"\n", "You are a coding assistant whose goal it is to help us solve coding tasks. ",
      "\n", "You have access to a series of tools you can execute. Hear are the tools you can execute:",
      "\n", "\n">>

SYSTEM_PROMPT_TAIL ==
    <<"\n", "\n",
      "When you want to use a tool, reply with exactly one line in the format: 'tool: TOOL_NAME({JSON_ARGS})' and nothing else.",
      "\n", "Use compact single-line JSON with double quotes. After receiving a tool_result(...) message, continue the task.",
      "\n", "If no tool is needed, respond normally.", "\n">>

get_full_system_prompt(registry) ==
    SYSTEM_PROMPT_HEAD
    \o (IF registry = <<>> THEN <<"No MCP tools are currently available.">>
        ELSE ToolListRepr(registry, 1))
    \o SYSTEM_PROMPT_TAIL

(***************************************************************************)
(* serialize_tool_result, execute_tool                                     *)
(***************************************************************************)
\* getattr(block, "text", str(block))
ErrorText(block) == IF block.has_text THEN block.text ELSE PyStr(block.repr)

\* what the for loop appends to content_blocks for one block
ContentOf(block) ==
    IF block.has_text /\ block.text.k # "none" THEN block.text
    ELSE IF block.has_model_dump THEN block.dump
    ELSE PyStr(block.repr)

\* serialize_tool_result with the test of line 115 ahead of the one of line 108
serialize_data_first(result) ==
    IF result.data.k # "none" THEN result.data
    ELSE IF result.is_error THEN
        PyDict(<< <<"error", IF result.content # <<>> THEN ErrorText(result.content[1])
                             ELSE PyStr("Tool execution failed")>> >>)
    ELSE IF Truthy(result.structured_content) THEN result.structured_content
    ELSE IF result.content = <<>> THEN PyDict(<< <<"status", PyStr("ok")>> >>)
    ELSE IF Len(result.content) = 1
         THEN PyDict(<< <<"result", ContentOf(result.content[1])>> >>)
    ELSE PyDict(<< <<"result",
                    PyList([i \in 1..Len(result.content) |-> ContentOf(result.content[i])])>> >>)

serialize_tool_result(result) ==
    IF result.is_error THEN
        LET error_texts == [i \in 1..Len(result.content) |-> ErrorText(result.content[i])]
            message == IF error_texts # <<>> THEN error_texts[1]
                       ELSE PyStr("Tool execution failed")
        IN PyDict(<< <<"error", message>> >>)
    ELSE IF result.data.k # "none" THEN result.data
    ELSE IF Truthy(result.structured_content) THEN result.structured_content
    ELSE
        LET content_blocks == [i \in 1..Len(result.content) |-> ContentOf(result.content[i])]
        IN
        IF content_blocks = <<>> THEN PyDict(<< <<"status", PyStr("ok")>> >>)
        ELSE IF Len(content_blocks) = 1 THEN PyDict(<< <<"result", content_blocks[1]>> >>)
        ELSE PyDict(<< <<"result", PyList(content_blocks)>> >>)

\* execute_tool without the check of line 134
UnknownToolUnchecked(registry, name) == FALSE

\* execute_tool, line 134: name not in TOOL_REGISTRY
UnknownTool(registry, name) == name \notin RegistryNames(registry)

\* execute_tool, line 135
UnknownToolResult(name) ==
    PyDict(<< <<"error", PyStr("Unknown tool '" \o name \o "'")>> >>)

\* execute_tool, lines 139-140
FailedToolResult(name, detail) ==
    PyDict(<< <<"error", PyStr("Failed to execute tool '" \o name \o "': " \o detail)>> >>)

(***************************************************************************)
(* The operator and the model: the lines and the replies explored.         *)
(***************************************************************************)
UserLines == {<<" ", "add a test", " ">>, <<"thanks">>}

EchoCall == <<"tool:", " ", "echo", "(", "{", Quote("text"), ":", Quote("hi"), "}", ")">>

StatCall == <<"tool:", "stat", " ", "(", "{", Quote("path"), ":", " ", Quote("a"), "}", ")">>

Replies ==
    { <<"All done.">>,
      EchoCall,
      <<"Let me look at the file.", "\n">> \o StatCall \o <<"\n">>,
      <<"tool:", " ", "frobnicate", "(", "{", "}", ")">>,
      <<"tool:", " ", "ping", "(", "{", "}", ")">>,
      <<" ", " ">> \o StatCall \o <<" ", "\n", "tool:", " ", "frobnicate", "(", "[", "1", "]", ")", "\n">>
          \o EchoCall,
      <<"tool:", " ", "echo", "(", ")", "\n", "tool:", " ", "echo", "(", "{", "bad", "}", ")">>,
      <<"tool:", " ", "echo", "(", "[", "1", ",", " ", "2", "]", ")", "\n",
        "tool:", " ", "echo", "(", "{", Quote("text"), ":", Quote("hi"), "}">> }

\* a reply of the model: message.content is a str or None
TextReply(text) == [none |-> FALSE, text |-> text]

NoneReply == [none |-> TRUE, text |-> <<>>]

(***************************************************************************)
(* What the loop prints.                                                   *)
(***************************************************************************)
RECURSIVE PyRepr(_)
PyRepr(v) ==
    CASE v.k = "none" -> <<"None">>
      [] v.k = "str" -> <<"'" \o v.s \o "'">>
      [] v.k = "int" -> <<ToString(v.n)>>
      [] v.k = "bool" -> IF v.b THEN <<"True">> ELSE <<"False">>
      [] v.k = "list" ->
            <<"[">>
            \o Join([i \in 1..Len(v.items) |-> PyRepr(v.items[i])], <<",", " ">>)
            \o <<"]">>
      [] v.k = "dict" ->
            <<"{">>
            \o Join([i \in 1..Len(v.pairs) |->
                        <<"'" \o v.pairs[i][1] \o "'", ":", " ">> \o PyRepr(v.pairs[i][2])],
                    <<",", " ">>)
            \o <<"}">>
      [] OTHER -> <<v.repr>>

UnreachableDiagnostic(url, detail) ==
    <<"Unable to reach MCP server at ", url, ". ", "Error: ", detail>>

NoToolsDiagnostic(url) ==
    <<"No MCP tools available. Make sure the Simple MCP server is running at ", url, ".">>

\* print(TOOL_REGISTRY), each MCPToolInfo by its name
RegistryPrint(registry) ==
    <<"{">>
    \o Join([i \in 1..Len(registry) |->
                <<"'" \o registry[i].name \o "'", ":", " ",
                  "MCPToolInfo(name='" \o registry[i].name \o "')">>],
            <<",", " ">>)
    \o <<"}">>

InputPrompt == <<"\\u001b[94m", "You:", "\\u001b[0m", ":">>

AssistantPrint(text) == <<"\\u001b[93m", "Assistant:", "\\u001b[0m", ":", " ">> \o text

InvocationPrint(name, args) == <<name, " ">> \o PyRepr(args)

(***************************************************************************)
(* run_coding_agent_loop                                                   *)
(***************************************************************************)
SystemMessage(prompt) == [role |-> "system", content |-> prompt]

UserMessage(user_input) == [role |-> "user", content |-> Strip(user_input)]

\* line 224 appending the reply under the role of line 216
ReplyAsUserMessage(text) == [role |-> "user", content |-> text]

\* line 224
AssistantMessage(text) == [role |-> "assistant", content |-> text]

ToolResultMessage(resp) ==
    [role |-> "user", content |-> <<"tool_result(">> \o JsonText(resp) \o <<")">>]

\* run_coding_agent_loop with the check of line 197 left out
SessionNeverAborts(registry) == FALSE

\* line 197: if not TOOL_REGISTRY
SessionAborts(registry) == registry = <<>>

\* a history window that drops the oldest message on every append
AppendedToWindow(conv, message) == Append(Tail(conv), message)

\* lines 215, 224 and 233: conversation.append(message)
Appended(conv, message) == Append(conv, message)

\* line 222: if not tool_invocations
IsFinalReply(invocations) == invocations = <<>>

\* line 229: the invocation the for loop takes after idx finished ones
NextInvocation(invocations, idx) == invocations[idx + 1]

\* line 231 without the isinstance test: the parsed value is passed on
ArgsAsParsed(args) == args

\* line 231: args if isinstance(args, dict) else {}
ArgDict(args) == IF IsDict(args) THEN args ELSE PyDict(<<>>)

\* lines 137 and 59: args or {}
OrEmpty(args) == IF Truthy(args) THEN args ELSE PyDict(<<>>)

\* the loop catching the error of the model call and asking for input again
PcAfterModelErrorCaught == "awaiting"

\* lines 219-221: nothing catches what execute_llm_call or the parser raises
PcAfterModelError == "crashed"

\* lines 213-214 with continue in the place of break
PcAfterEndOfInputContinue == "awaiting"

\* lines 213-214: break on EOFError and KeyboardInterrupt
PcAfterEndOfInput == "ended"

\* "async with client" left by a return, lines 48-49 and 56-61
Released(n) == n - 1

\* the connection is kept when the request raises
KeptOnError(n) == n

\* "async with client" left by an exception, lines 48-49 and 56-61
ReleasedOnError(n) == n - 1

\* only the system message and the latest message are sent
LlmMessagesLatestOnly(conv) == <<conv[1], conv[Len(conv)]>>

\* line 220: the messages execute_llm_call sends
LlmMessages(conv) == conv

\* the reply is kept in the history whatever it holds
ConversationKeepingReply(conv, text, invocations) ==
    Appended(conv, AssistantMessage(text))

\* lines 222-228: the history after a reply
ConversationAfterReply(conv, text, invocations) ==
    IF IsFinalReply(invocations) THEN Appended(conv, AssistantMessage(text)) ELSE conv

\* line 228 without its break: the inner loop calls the model again
PcAfterReplyNoBreak(invocations) ==
    IF IsFinalReply(invocations) THEN "model" ELSE "tools"

\* lines 222-229: where the thread goes after a reply
PcAfterReply(invocations) ==
    IF IsFinalReply(invocations) THEN "awaiting" ELSE "tools"

\* the for loop leaves the inner loop when it is done
AfterInvocationBreaks(idx, n) == IF idx < n THEN "tools" ELSE "awaiting"

\* where the thread goes once the for loop finished idx of n invocations
AfterInvocation(idx, n) == IF idx < n THEN "tools" ELSE "model"

Init ==
    /\ pc = "start"
    /\ server_url \in ServerUrls
    /\ TOOL_REGISTRY = <<>>
    /\ system_prompt = <<>>
    /\ conversation = <<>>
    /\ tool_invocations = <<>>
    /\ inv_idx = 0
    /\ inflight = <<>>
    /\ connections = 0
    /\ list_calls = 0
    /\ tool_calls = 0
    /\ llm_messages = <<>>
    /\ model_calls = 0
    /\ inputs_read = 0
    /\ assistant_response = NoneReply
    /\ resps = <<>>
    /\ stdout = <<>>
    /\ exc = ""
    /\ fn_input = <<>>
    /\ fn_output = <<>>
    /\ fn_calls = 0

\* refresh_tool_registry enters mcp_client.list_tools(): a connection is
\* opened and the request sent
Discover ==
    /\ pc = "start"
    /\ UNCHANGED harness
    /\ pc' = "discovering"
    /\ connections' = connections + 1
    /\ list_calls' = list_calls + 1
    /\ inflight' = Append(inflight, [op |-> "list_tools"])
    /\ UNCHANGED <<server_url, TOOL_REGISTRY, system_prompt, conversation,
                   tool_invocations, inv_idx, tool_calls, llm_messages,
                   model_calls, inputs_read, assistant_response, resps, stdout, exc>>

\* lines 197-209 once refresh_tool_registry has set the registry and printed out
StartSession(registry, out) ==
    /\ TOOL_REGISTRY' = registry
    /\ IF SessionAborts(registry)
       THEN /\ stdout' = out \o <<NoToolsDiagnostic(server_url)>>
            /\ pc' = "aborted"
            /\ UNCHANGED <<system_prompt, conversation>>
       ELSE /\ system_prompt' = get_full_system_prompt(registry)
            /\ stdout' = out \o <<RegistryPrint(registry), system_prompt'>>
            /\ conversation' = <<SystemMessage(system_prompt')>>
            /\ pc' = "awaiting"

\* list_tools raises: the except branch of refresh_tool_registry
DiscoverFails ==
    /\ pc = "discovering"
    /\ UNCHANGED harness
    /\ \E detail \in RemoteErrors :
          StartSession(RegistryAfterFailure(TOOL_REGISTRY),
                       Append(stdout, UnreachableDiagnostic(server_url, detail)))
    /\ connections' = ReleasedOnError(connections)
    /\ inflight' = <<>>
    /\ UNCHANGED <<server_url, tool_invocations, inv_idx, list_calls, tool_calls,
                   llm_messages, model_calls, inputs_read, assistant_response,
                   resps, exc>>

\* list_tools returns a catalog
DiscoverReturns ==
    /\ pc = "discovering"
    /\ UNCHANGED harness
    /\ \E remote_tools \in Catalogs :
          StartSession(RegistryAfterSuccess(TOOL_REGISTRY, remote_tools), stdout)
    /\ connections' = Released(connections)
    /\ inflight' = <<>>
    /\ UNCHANGED <<server_url, tool_invocations, inv_idx, list_calls, tool_calls,
                   llm_messages, model_calls, inputs_read, assistant_response,
                   resps, exc>>

\* lines 211-218: input() returns a line
ReadInput ==
    /\ pc = "awaiting"
    /\ UNCHANGED harness
    /\ inputs_read < MaxInputs
    /\ \E user_input \in UserLines :
          conversation' = Appended(conversation, UserMessage(user_input))
    /\ inputs_read' = inputs_read + 1
    /\ stdout' = Append(stdout, InputPrompt)
    /\ pc' = "model"
    /\ UNCHANGED <<server_url, TOOL_REGISTRY, system_prompt, tool_invocations,
                   inv_idx, inflight, connections, list_calls, tool_calls,
                   llm_messages, model_calls, assistant_response, resps, exc>>

\* lines 211-214: input() raises EOFError or KeyboardInterrupt
EndOfInput ==
    /\ pc = "awaiting"
    /\ UNCHANGED harness
    /\ stdout' = Append(stdout, InputPrompt)
    /\ pc' = PcAfterEndOfInput
    /\ UNCHANGED <<server_url, TOOL_REGISTRY, system_prompt, conversation,
                   tool_invocations, inv_idx, inflight, connections, list_calls,
                   tool_calls, llm_messages, model_calls, inputs_read,
                   assistant_response, resps, exc>>

\* lines 220-229 for a reply that is a text
HandleReply(text) ==
    LET invocations == extract_tool_invocations(text) IN
    /\ assistant_response' = TextReply(text)
    /\ tool_invocations' = invocations
    /\ IF IsFinalReply(invocations)
       THEN /\ stdout' = Append(stdout, AssistantPrint(text))
            /\ UNCHANGED <<inv_idx, resps>>
       ELSE /\ inv_idx' = 0
            /\ resps' = <<>>
            /\ UNCHANGED stdout
    /\ conversation' = ConversationAfterReply(conversation, text, invocations)
    /\ pc' = PcAfterReply(invocations)
    /\ exc' = exc

\* line 220: execute_llm_call returns a text
ModelReplies ==
    /\ pc = "model"
    /\ UNCHANGED harness
    /\ model_calls < MaxModelCalls
    /\ llm_messages' = LlmMessages(conversation)
    /\ model_calls' = model_calls + 1
    /\ \E text \in Replies : HandleReply(text)
    /\ UNCHANGED <<server_url, TOOL_REGISTRY, system_prompt, inflight, connections,
                   list_calls, tool_calls, inputs_read>>

\* line 220: execute_llm_call raises, or returns None and line 170 raises
ModelFails ==
    /\ pc = "model"
    /\ UNCHANGED harness
    /\ model_calls < MaxModelCalls
    /\ llm_messages' = LlmMessages(conversation)
    /\ model_calls' = model_calls + 1
    /\ \/ /\ exc' = "APIError"
          /\ UNCHANGED assistant_response
       \/ /\ exc' = "AttributeError"
          /\ assistant_response' = NoneReply
    /\ pc' = PcAfterModelError
    /\ UNCHANGED <<server_url, TOOL_REGISTRY, system_prompt, conversation,
                   tool_invocations, inv_idx, inflight, connections, list_calls,
                   tool_calls, inputs_read, resps, stdout>>

\* lines 232-236 once execute_tool returned resp
FinishInvocation(resp) ==
    /\ resps' = Append(resps, resp)
    /\ IF JsonDumps(resp).ok
       THEN /\ conversation' = Appended(conversation, ToolResultMessage(resp))
            /\ inv_idx' = inv_idx + 1
            /\ pc' = AfterInvocation(inv_idx', Len(tool_invocations))
            /\ exc' = exc
       ELSE /\ pc' = "crashed"
            /\ exc' = "TypeError"
            /\ UNCHANGED <<conversation, inv_idx>>

\* lines 229-232 and 134-135: the next invocation names no registered tool
ToolUnknown ==
    /\ pc = "tools"
    /\ UNCHANGED harness
    /\ LET inv == NextInvocation(tool_invocations, inv_idx) IN
          /\ UnknownTool(TOOL_REGISTRY, inv.name)
          /\ stdout' = Append(stdout, InvocationPrint(inv.name, inv.args))
          /\ FinishInvocation(UnknownToolResult(inv.name))
    /\ UNCHANGED <<server_url, TOOL_REGISTRY, system_prompt, tool_invocations,
                   inflight, connections, list_calls, tool_calls, llm_messages,
                   model_calls, inputs_read, assistant_response>>

\* lines 229-232, 137 and 54-61: the next invocation is sent to the service
ToolCall ==
    /\ pc = "tools"
    /\ UNCHANGED harness
    /\ LET inv == NextInvocation(tool_invocations, inv_idx) IN
          /\ ~UnknownTool(TOOL_REGISTRY, inv.name)
          /\ stdout' = Append(stdout, InvocationPrint(inv.name, inv.args))
          /\ inflight' = Append(inflight,
                                [op |-> "call_tool", name |-> inv.name,
                                 arguments |-> OrEmpty(OrEmpty(ArgDict(inv.args)))])
    /\ connections' = connections + 1
    /\ tool_calls' = tool_calls + 1
    /\ pc' = "toolcall"
    /\ UNCHANGED <<server_url, TOOL_REGISTRY, system_prompt, conversation,
                   tool_invocations, inv_idx, list_calls, llm_messages,
                   model_calls, inputs_read, assistant_response, resps, exc>>

\* lines 137-138: call_tool returns and the result is normalized
ToolReturns ==
    /\ pc = "toolcall"
    /\ UNCHANGED harness
    /\ \E result \in RawResults(inflight[1].name) : FinishInvocation(serialize_tool_result(result))
    /\ connections' = Released(connections)
    /\ inflight' = <<>>
    /\ UNCHANGED <<server_url, TOOL_REGISTRY, system_prompt, tool_invocations,
                   list_calls, tool_calls, llm_messages, model_calls, inputs_read,
                   assistant_response, stdout>>

\* lines 139-140: call_tool raises
ToolRaises ==
    /\ pc = "toolcall"
    /\ UNCHANGED harness
    /\ \E detail \in RemoteErrors :
          FinishInvocation(FailedToolResult(inflight[1].name, detail))
    /\ connections' = ReleasedOnError(connections)
    /\ inflight' = <<>>
    /\ UNCHANGED <<server_url, TOOL_REGISTRY, system_prompt, tool_invocations,
                   list_calls, tool_calls, llm_messages, model_calls, inputs_read,
                   assistant_response, stdout>>

Next ==
    \/ Discover
    \/ DiscoverFails
    \/ DiscoverReturns
    \/ ReadInput
    \/ EndOfInput
    \/ ModelReplies
    \/ ModelFails
    \/ ToolUnknown
    \/ ToolCall
    \/ ToolReturns
    \/ ToolRaises

Spec == Init /\ [][Next]_vars

(***************************************************************************)
(* Properties of the conversation engine.                                  *)
(***************************************************************************)
\* the thread is in the for loop over the invocations of a reply
InToolTurn == pc \in {"tools", "toolcall"}

\* the step is a call of execute_llm_call
IsModelStep == model_calls' = model_calls + 1

IsToolResultMessage(m) ==
    m.role = "user" /\ m.content # <<>> /\ Head(m.content) = "tool_result("

\* the text of the message the engine is to build for a result
ResultText(resp) == <<"tool_result(">> \o JsonText(resp) \o <<")">>

\* the last n messages of the conversation
LastMessages(n) ==
    SubSeq(conversation, Len(conversation) - n + 1, Len(conversation))

\* C1: once the engine has left the for loop over the n >= 1 invocations of
\* a reply, all n were executed and the last n messages of the conversation
\* are, in extraction order, the user messages tool_result(<json of the
\* result of the k-th invocation>).
C1_EveryInvocationAnswered ==
    (tool_invocations # <<>> /\ ~InToolTurn) =>
        /\ inv_idx = Len(tool_invocations)
        /\ Len(resps) = Len(tool_invocations)
        /\ Len(conversation) > Len(tool_invocations)
        /\ LastMessages(Len(tool_invocations)) =
              [k \in 1..Len(tool_invocations) |->
                  [role |-> "user", content |-> ResultText(resps[k])]]

\* C1, the part the code keeps: while and after the for loop runs, the
\* invocations finished so far are the first inv_idx ones, at most one
\* request is in flight and it is the one of invocation inv_idx + 1, and the
\* last inv_idx messages are their tool_result messages in extraction order.
C1_InOrderSoFar ==
    (tool_invocations # <<>>) =>
        /\ inv_idx <= Len(tool_invocations)
        /\ Len(inflight) <= 1
        /\ pc = "toolcall" =>
              /\ Len(inflight) = 1
              /\ inv_idx < Len(tool_invocations)
              /\ inflight[1].op = "call_tool"
              /\ inflight[1].name = tool_invocations[inv_idx + 1].name
        /\ Len(resps) >= inv_idx
        /\ Len(conversation) > inv_idx
        /\ LastMessages(inv_idx) =
              [k \in 1..inv_idx |-> [role |-> "user", content |-> ResultText(resps[k])]]

\* C2: a model step whose reply yields one or more invocations leaves the
\* conversation as it was and enters the tool turn, and every step of the
\* tool turn leaves the conversation alone or appends one tool_result user
\* message: the reply text is never appended, no assistant message is added.
C2_ReplyNotRetained ==
    [][ /\ (IsModelStep /\ exc' = ""
            /\ extract_tool_invocations(assistant_response'.text) # <<>>)
           => (conversation' = conversation /\ pc' = "tools")
        /\ InToolTurn =>
              \/ conversation' = conversation
              \/ /\ Len(conversation') = Len(conversation) + 1
                 /\ SubSeq(conversation', 1, Len(conversation)) = conversation
                 /\ IsToolResultMessage(conversation'[Len(conversation')])
                 /\ conversation'[Len(conversation')].content # assistant_response.text
      ]_vars

C2_Witness ==
    /\ pc = "model"
    /\ inv_idx = 1
    /\ Len(SplitLines(assistant_response.text)) = 2
    /\ Len(conversation) = 3
    /\ IsToolResultMessage(conversation[3])

\* C3: a model step whose reply yields zero invocations appends exactly one
\* message, the assistant message holding the reply text, contacts no tool
\* and moves to awaiting; from awaiting the next step reads operator input
\* (or ends the session) and is no model or tool call.
C3_FinalReply ==
    [][ /\ (IsModelStep /\ exc' = ""
            /\ extract_tool_invocations(assistant_response'.text) = <<>>)
           => /\ conversation' =
                    Append(conversation,
                           [role |-> "assistant", content |-> assistant_response'.text])
              /\ pc' = "awaiting"
              /\ tool_calls' = tool_calls
              /\ connections' = connections
              /\ inflight' = inflight
        /\ pc = "awaiting"
           => /\ model_calls' = model_calls
              /\ tool_calls' = tool_calls
              /\ pc' \in {"model", "ended"}
              /\ stdout' = Append(stdout, InputPrompt)
      ]_vars

C3_Witness ==
    /\ pc = "awaiting"
    /\ model_calls = 1
    /\ Len(conversation) = 3
    /\ conversation[3] = [role |-> "assistant", content |-> <<"All done.">>]

\* C4: a step of the for loop whose invocation names no key of the registry
\* appends tool_result({"error": "Unknown tool '<name>'"}), sends nothing to
\* the remote service and opens no connection, and the loop goes on with
\* the next invocation (or, after the last one, with the model).
C4_UnknownTool ==
    [][ (/\ pc = "tools"
         /\ \A i \in 1..Len(TOOL_REGISTRY) :
               TOOL_REGISTRY[i].name # tool_invocations[inv_idx + 1].name)
        => /\ conversation' =
                 Append(conversation,
                        [role |-> "user",
                         content |->
                            <<"tool_result(", "{", Quote("error"), ":", " ",
                              Quote("Unknown tool '"
                                    \o tool_invocations[inv_idx + 1].name \o "'"),
                              "}", ")">>])
           /\ tool_calls' = tool_calls
           /\ list_calls' = list_calls
           /\ connections' = connections
           /\ inflight' = <<>>
           /\ inv_idx' = inv_idx + 1
           /\ pc' = IF inv_idx' < Len(tool_invocations) THEN "tools" ELSE "model"
      ]_vars

C4_Witness ==
    /\ tool_calls = 0
    /\ pc = "model"
    /\ Len(conversation) = 3
    /\ conversation[3].content =
          <<"tool_result(", "{", Quote("error"), ":", " ",
            Quote("Unknown tool 'frobnicate'"), "}", ")">>

\* C5: no failure local to one invocation aborts the loop: the session is
\* never ended by an exception while invocations of a reply are left, every
\* result execute_tool returned has its tool_result message, and the thread
\* leaves a tool turn only towards the model.
C5_ToolFailureNeverAborts ==
    (tool_invocations # <<>>) =>
        /\ pc = "crashed" => inv_idx = Len(tool_invocations)
        /\ ~InToolTurn => Len(resps) = inv_idx

\* C6: when discovery left the registry empty (zero tools, or it failed) the
\* session is aborted: no conversation, no operator input read or asked
\* for, no model call, no tool call, the last thing written is the
\* diagnostic naming the configured endpoint, and nothing more happens.
C6_EmptyRegistryAborts ==
    /\ (pc \notin {"start", "discovering"} /\ TOOL_REGISTRY = <<>>)
       => /\ pc = "aborted"
          /\ conversation = <<>>
          /\ inputs_read = 0
          /\ model_calls = 0
          /\ tool_calls = 0
          /\ connections = 0
          /\ stdout # <<>>
          /\ server_url \in Range(stdout[Len(stdout)])
          /\ \A i \in 1..Len(stdout) : stdout[i] # InputPrompt
          /\ ~ENABLED Next
    /\ pc = "aborted" => TOOL_REGISTRY = <<>>

C6_Witness ==
    /\ pc = "aborted"
    /\ Len(stdout) = 1
    /\ server_url # DEFAULT_MCP_SERVER_URL

\* C7: once the session runs, the conversation is non-empty, its first
\* message is the system message holding the prompt rendered from the
\* registry at session start, and no step changes that message.
C7_SystemPromptFirst ==
    /\ [](pc \notin {"start", "discovering", "aborted"}
          => /\ conversation # <<>>
             /\ conversation[1] = [role |-> "system", content |-> system_prompt]
             /\ system_prompt = get_full_system_prompt(TOOL_REGISTRY))
    /\ [][pc \notin {"start", "discovering", "aborted"}
          => /\ conversation'[1] = conversation[1]
             /\ system_prompt' = system_prompt]_vars

C7_Witness ==
    /\ pc = "model"
    /\ model_calls = 1
    /\ inputs_read = 2
    /\ Len(conversation) = 4
    /\ conversation[1].role = "system"
    /\ Len(TOOL_REGISTRY) = 3

\* C8: every step leaves the conversation a prefix of what it becomes, and
\* every model call is sent the whole conversation as it is at the call.
C8_AppendOnly ==
    [][ /\ IsPrefix(conversation, conversation')
        /\ model_calls' # model_calls
           => (IsModelStep /\ llm_messages' = conversation)
        /\ model_calls' = model_calls => llm_messages' = llm_messages
      ]_vars

C8_Witness ==
    /\ model_calls = 2
    /\ Len(llm_messages) = 5
    /\ IsToolResultMessage(llm_messages[4])
    /\ llm_messages = conversation

\* C9: no step of a tool turn reads operator input or appends anything but
\* a tool_result message, the tool turn is left only towards the model (or
\* by an exception), and the step taken at the model position is a model
\* call sent the updated history.
C9_ModelCalledAfterTools ==
    [][ /\ InToolTurn
           => /\ inputs_read' = inputs_read
              /\ pc' \in {"tools", "toolcall", "model", "crashed"}
              /\ \/ stdout' = stdout
                 \/ /\ Len(stdout') = Len(stdout) + 1
                    /\ stdout'[Len(stdout')] # InputPrompt
              /\ \/ conversation' = conversation
                 \/ IsToolResultMessage(conversation'[Len(conversation')])
        /\ (InToolTurn /\ inv_idx' = Len(tool_invocations) /\ exc' = "")
           => pc' = "model"
        /\ pc = "model"
           => /\ IsModelStep
              /\ inputs_read' = inputs_read
              /\ llm_messages' = conversation
      ]_vars

C9_Witness ==
    /\ model_calls = 2
    /\ inputs_read = 1
    /\ Len(llm_messages) = 5
    /\ \A i \in 3..5 : IsToolResultMessage(llm_messages[i])

\* C10: every value serialize_tool_result returned has a JSON encoding, so
\* building the tool_result message never raises.
C10_ResultJsonEncodable ==
    /\ \A k \in 1..Len(resps) : JsonEncodable(resps[k])
    /\ exc # "TypeError"

(***************************************************************************)
(* Functions called on their own: the caller picks an argument, calls the  *)
(* function once and keeps what it returned.                               *)
(***************************************************************************)
\* the sequences over S of at most n elements
SeqUpTo(S, n) == UNION {[1..m -> S] : m \in 0..n}

\* the engine is not running
EngineIdle ==
    /\ server_url = DEFAULT_MCP_SERVER_URL
    /\ TOOL_REGISTRY = <<>>
    /\ system_prompt = <<>>
    /\ conversation = <<>>
    /\ tool_invocations = <<>>
    /\ inv_idx = 0
    /\ inflight = <<>>
    /\ connections = 0
    /\ list_calls = 0
    /\ tool_calls = 0
    /\ llm_messages = <<>>
    /\ model_calls = 0
    /\ inputs_read = 0
    /\ assistant_response = NoneReply
    /\ resps = <<>>
    /\ stdout = <<>>
    /\ exc = ""

\* what a call of a pure function leaves alone
conversation_vars ==
    <<server_url, system_prompt, conversation, tool_invocations, inv_idx,
      llm_messages, model_calls, inputs_read, assistant_response, resps, exc>>

remote_vars == <<TOOL_REGISTRY, inflight, connections, list_calls, tool_calls, stdout>>

(***************************************************************************)
(* serialize_tool_result on its own.                                       *)
(***************************************************************************)
MaxBlocks == 2

\* the content blocks a CallToolResult may carry
Blocks == {TextBlock("hi"), TextBlock("boom"), ImageBlock, ResourceBlock}

\* the hydrated data and the structured content it may carry
DataPayloads == {PyNone, PyStr("hi"), PyInt(0), PyObj("Root(size=1)")}

StructuredPayloads == {PyNone, PyDict(<<>>), HiDict}

CallToolResults ==
    { RawResult(e, c, d, sc) : e \in BOOLEAN, c \in SeqUpTo(Blocks, MaxBlocks),
                               d \in DataPayloads, sc \in StructuredPayloads }

InitNormalizer ==
    /\ pc = "normalize"
    /\ EngineIdle
    /\ fn_input \in CallToolResults
    /\ fn_output = <<>>
    /\ fn_calls = 0

Normalize ==
    /\ pc = "normalize"
    /\ fn_output' = serialize_tool_result(fn_input)
    /\ pc' = "normalized"
    /\ UNCHANGED <<fn_input, fn_calls, conversation_vars, remote_vars>>

NextNormalizer == Normalize

SpecNormalizer == InitNormalizer /\ [][NextNormalizer]_vars

\* the texts of the blocks that carry one, in order
TextsOf(content) ==
    LET texted == SelectSeq(content, LAMBDA b : b.has_text)
    IN [i \in 1..Len(texted) |-> texted[i].text]

\* a block as the result carries it: its text, else its field dump
Carried(b) == IF b.has_text THEN b.text ELSE b.dump

\* the content blocks: zero, exactly one, several
ByBlocks(content) ==
    IF Len(content) = 0 THEN PyDict(<< <<"status", PyStr("ok")>> >>)
    ELSE IF Len(content) = 1 THEN PyDict(<< <<"result", Carried(content[1])>> >>)
    ELSE PyDict(<< <<"result", PyList([i \in 1..Len(content) |-> Carried(content[i])])>> >>)

\* the precedence with the diagnostic being the first text among the blocks
PrecedenceFirstText(r) ==
    IF r.is_error THEN
        PyDict(<< <<"error", IF TextsOf(r.content) # <<>> THEN TextsOf(r.content)[1]
                             ELSE PyStr("Tool execution failed")>> >>)
    ELSE IF r.data # PyNone THEN r.data
    ELSE IF r.structured_content \notin {PyNone, PyDict(<<>>)} THEN r.structured_content
    ELSE ByBlocks(r.content)

\* the precedence with the diagnostic being taken from the first block
PrecedenceFirstBlock(r) ==
    IF r.is_error THEN
        PyDict(<< <<"error", IF r.content = <<>> THEN PyStr("Tool execution failed")
                             ELSE IF r.content[1].has_text THEN r.content[1].text
                             ELSE PyStr(r.content[1].repr)>> >>)
    ELSE IF r.data # PyNone THEN r.data
    ELSE IF r.structured_content \notin {PyNone, PyDict(<<>>)} THEN r.structured_content
    ELSE ByBlocks(r.content)

\* C11 as stated: the normalizer returns the ordered precedence, first match
\* wins: error-flagged -> Failure with the first diagnostic text, or the
\* generic message when there is no text, whatever data or structured
\* content is present; else the data payload; else the structured content;
\* else the content blocks (zero, one, several).
C11_PrecedenceFirstText ==
    pc = "normalized" => fn_output = PrecedenceFirstText(fn_input)

\* C11: the normalizer returns the ordered precedence, first match wins:
\* error-flagged -> Failure whose message comes from the first content block
\* (its text, or its string form when it carries no text), the generic
\* message only when there is no block at all, whatever data or structured
\* content is present; else the data payload verbatim; else the non-empty
\* structured content; else the content blocks: zero -> {status: ok}, one ->
\* {result: block}, several -> {result: [blocks in order]}.
C11_Precedence ==
    pc = "normalized" => fn_output = PrecedenceFirstBlock(fn_input)

\* an error-flagged result that also carries data and structured content,
\* and whose first block has no text, was normalised
C11_Witness ==
    /\ pc = "normalized"
    /\ fn_input.is_error
    /\ fn_input.data = PyStr("hi")
    /\ fn_input.structured_content = HiDict
    /\ fn_input.content = <<ImageBlock, TextBlock("boom")>>
    /\ fn_output = PyDict(<< <<"error", PyStr(ImageBlock.repr)>> >>)
(***************************************************************************)
(* extract_tool_invocations on its own: the caller writes a text line by   *)
(* line, each line a directive or a directive with one part missing.       *)
(***************************************************************************)
MaxLines == 3

DirectiveNames == {"echo", "stat", "ping"}

DirectiveArgs == {PyDict(<< <<"text", PyStr("hi")>> >>), PyList(<<PyInt(1), PyInt(2)>>)}

LineOf(kind, name, args) == [kind |-> kind, name |-> name, args |-> args]

\* the lines explored: every well-formed directive, and the echo directive
\* padded with blanks, without its marker, its "(", its final ")", with its
\* JSON cut short, and a blank line
DirectiveLines ==
    {LineOf("directive", n, a) : n \in DirectiveNames, a \in DirectiveArgs}
    \cup {LineOf(kd, "echo", PyDict(<< <<"text", PyStr("hi")>> >>)) :
            kd \in {"padded", "no marker", "no open", "no close", "bad json", "blank"}}

\* the characters of a line
LineText(l) ==
    LET json == JsonText(l.args) IN
    CASE l.kind = "directive" -> <<"tool:", " ", l.name, "(">> \o json \o <<")">>
      [] l.kind = "padded" ->
            <<" ", "tool:", l.name, " ", "(", "\t">> \o json \o <<" ", ")", " ">>
      [] l.kind = "no marker" -> <<l.name, "(">> \o json \o <<")">>
      [] l.kind = "no open" -> <<"tool:", " ", l.name>> \o json \o <<")">>
      [] l.kind = "no close" -> <<"tool:", " ", l.name, "(">> \o json
      [] l.kind = "bad json" ->
            <<"tool:", " ", l.name, "(">> \o SubSeq(json, 1, Len(json) - 1) \o <<")">>
      [] OTHER -> <<" ">>

ModelText(lines) == Join([i \in 1..Len(lines) |-> LineText(lines[i])], <<"\n">>)

ModelTexts ==
    {[lines |-> ls, text |-> ModelText(ls)] : ls \in SeqUpTo(DirectiveLines, MaxLines)}

InitParser ==
    /\ pc = "parse"
    /\ EngineIdle
    /\ fn_input \in ModelTexts
    /\ fn_output = <<>>
    /\ fn_calls = 0

Parse ==
    /\ pc = "parse"
    /\ fn_output' = extract_tool_invocations(fn_input.text)
    /\ pc' = "parsed"
    /\ UNCHANGED <<fn_input, fn_calls, conversation_vars, remote_vars>>

NextParser == Parse

SpecParser == InitParser /\ [][NextParser]_vars

\* one invocation per well-formed line, in the order of the lines
WellFormedInOrder(lines) ==
    LET well == SelectSeq(lines, LAMBDA l : l.kind \in {"directive", "padded"})
    IN [i \in 1..Len(well) |-> [name |-> well[i].name, args |-> well[i].args]]

\* C12: for every multi-line text, extract_tool_invocations returns exactly
\* one invocation (name, parsed JSON arguments) per well-formed directive
\* line, in the order of the lines; a line without the marker, without the
\* opening or the final closing parenthesis, or with invalid JSON adds
\* nothing and changes nothing of what the other lines add.
C12_OnePerWellFormedLine ==
    pc = "parsed" => fn_output = WellFormedInOrder(fn_input.lines)

\* a directive for stat, the echo directive with its JSON cut short and a
\* directive for ping were parsed: stat and ping were returned, in that order
C12_Witness ==
    /\ pc = "parsed"
    /\ Len(fn_input.lines) = 3
    /\ [i \in 1..3 |-> fn_input.lines[i].kind] = <<"directive", "bad json", "directive">>
    /\ Len(fn_output) = 2
    /\ fn_output[1].name = "stat"
    /\ fn_output[2].name = "ping"
(***************************************************************************)
(* refresh_tool_registry and execute_tool on their own: the caller         *)
(* refreshes the registry again and again and executes tools in between.   *)
(* fn_input is what list_tools answered so far, fn_output the last         *)
(* execute_tool call.                                                      *)
(***************************************************************************)
MaxRefreshes == 2

MaxExecutes == 2

\* the names the caller asks execute_tool for
ExecutedNames == {"echo", "stat", "frobnicate"}

Listed(remote_tools) == [ok |-> TRUE, tools |-> remote_tools, detail |-> ""]

ListFailed(detail) == [ok |-> FALSE, tools |-> <<>>, detail |-> detail]

Executed(name, resp, after) == [name |-> name, resp |-> resp, after |-> after]

InitRegistry ==
    /\ pc = "idle"
    /\ EngineIdle
    /\ fn_input = <<>>
    /\ fn_output = Executed("", PyNone, 0)
    /\ fn_calls = 0

\* refresh_tool_registry, line 76 and 46-49: list_tools is sent
Refresh ==
    /\ pc = "idle"
    /\ list_calls < MaxRefreshes
    /\ pc' = "refreshing"
    /\ connections' = connections + 1
    /\ list_calls' = list_calls + 1
    /\ inflight' = Append(inflight, [op |-> "list_tools"])
    /\ UNCHANGED <<TOOL_REGISTRY, tool_calls, stdout, conversation_vars, harness>>

\* lines 77-81: list_tools raises
RefreshFails ==
    /\ pc = "refreshing"
    /\ \E detail \in RemoteErrors :
          /\ stdout' = Append(stdout, UnreachableDiagnostic(server_url, detail))
          /\ fn_input' = Append(fn_input, ListFailed(detail))
    /\ TOOL_REGISTRY' = RegistryAfterFailure(TOOL_REGISTRY)
    /\ connections' = ReleasedOnError(connections)
    /\ inflight' = <<>>
    /\ pc' = "idle"
    /\ UNCHANGED <<list_calls, tool_calls, conversation_vars, fn_output, fn_calls>>

\* lines 82-89: list_tools returns a catalog
RefreshReturns ==
    /\ pc = "refreshing"
    /\ \E remote_tools \in Catalogs :
          /\ TOOL_REGISTRY' = RegistryAfterSuccess(TOOL_REGISTRY, remote_tools)
          /\ fn_input' = Append(fn_input, Listed(remote_tools))
    /\ connections' = Released(connections)
    /\ inflight' = <<>>
    /\ pc' = "idle"
    /\ UNCHANGED <<list_calls, tool_calls, stdout, conversation_vars, fn_output, fn_calls>>

\* execute_tool, lines 134-135: the name is not a key of the registry
ExecuteUnknown ==
    /\ pc = "idle"
    /\ \E name \in ExecutedNames :
          /\ UnknownTool(TOOL_REGISTRY, name)
          /\ fn_output' = Executed(name, UnknownToolResult(name), Len(fn_input))
    /\ UNCHANGED <<pc, fn_input, fn_calls, conversation_vars, remote_vars>>

\* execute_tool, lines 136-140: the call is sent and answered, or raises
ExecuteKnown ==
    /\ pc = "idle"
    /\ tool_calls < MaxExecutes
    /\ \E name \in ExecutedNames :
          /\ ~UnknownTool(TOOL_REGISTRY, name)
          /\ \/ \E result \in RawResults(name) :
                   fn_output' = Executed(name, serialize_tool_result(result), Len(fn_input))
             \/ \E detail \in RemoteErrors :
                   fn_output' = Executed(name, FailedToolResult(name, detail), Len(fn_input))
    /\ tool_calls' = tool_calls + 1
    /\ UNCHANGED <<pc, fn_input, fn_calls, conversation_vars, TOOL_REGISTRY,
                   inflight, connections, list_calls, stdout>>

NextRegistry ==
    \/ Refresh
    \/ RefreshFails
    \/ RefreshReturns
    \/ ExecuteUnknown
    \/ ExecuteKnown

SpecRegistry == InitRegistry /\ [][NextRegistry]_vars

\* the names of a catalog
CatalogNames(remote_tools) == {remote_tools[i].name : i \in 1..Len(remote_tools)}

\* the k-th and the one before it were successful refreshes
TwoSuccessful(k) == k >= 2 /\ k <= Len(fn_input) /\ fn_input[k - 1].ok /\ fn_input[k].ok

\* C13: a refresh replaces the registry: after two successive successful
\* refreshes with catalogs C1 then C2 the keys of the registry are exactly
\* the names of C2, and an execution of a name that only C1 has is answered
\* Unknown tool.
C13_RefreshReplaces ==
    /\ pc = "idle" /\ TwoSuccessful(Len(fn_input))
          => RegistryNames(TOOL_REGISTRY) = CatalogNames(fn_input[Len(fn_input)].tools)
    /\ TwoSuccessful(fn_output.after)
       /\ fn_output.name \in CatalogNames(fn_input[fn_output.after - 1].tools)
       /\ fn_output.name \notin CatalogNames(fn_input[fn_output.after].tools)
          => fn_output.resp = UnknownToolResult(fn_output.name)

\* stat was listed by the first refresh and not by the second, and was
\* then executed
C13_Witness ==
    /\ pc = "idle"
    /\ Len(fn_input) = 2
    /\ fn_input[1] = Listed(<<StatTool, EchoTool, PingTool>>)
    /\ fn_input[2] = Listed(<<EchoTool>>)
    /\ fn_output = Executed("stat", UnknownToolResult("stat"), 2)
    /\ RegistryNames(TOOL_REGISTRY) = {"echo"}

\* C14: when list_tools raises, refresh_tool_registry returns normally,
\* has written the diagnostic and leaves the registry empty, also when the
\* registry held tools before the refresh.
C14_FailureCaptured ==
    pc = "idle" /\ fn_input # <<>> /\ ~fn_input[Len(fn_input)].ok
       => /\ TOOL_REGISTRY = <<>>
          /\ exc = ""
          /\ stdout # <<>>
          /\ stdout[Len(stdout)]
                = UnreachableDiagnostic(server_url, fn_input[Len(fn_input)].detail)

\* the first refresh listed three tools, the second one failed
C14_Witness ==
    /\ pc = "idle"
    /\ Len(fn_input) = 2
    /\ fn_input[1] = Listed(<<StatTool, EchoTool, PingTool>>)
    /\ ~fn_input[2].ok
    /\ TOOL_REGISTRY = <<>>
    /\ Len(stdout) = 1
(***************************************************************************)
(* week2 extract service: extract_action_items. A note is a sequence of    *)
(* tokens; the tokens the explored notes are made of are listed, with what *)
(* str.lower and the regular expressions make of each.                     *)
(***************************************************************************)
\* str.lower on a token
Lower(tok) ==
    CASE tok = "Write tests" -> "write tests"
      [] tok = "Set up database" -> "set up database"
      [] tok = "Fix login" -> "fix login"
      [] tok = "implement API extract endpoint" -> "implement api extract endpoint"
      [] tok = "Notes from meeting:" -> "notes from meeting:"
      [] tok = "Some narrative sentence." -> "some narrative sentence."
      [] tok = "Fix the build." -> "fix the build."
      [] OTHER -> tok

LowerSeq(s) == [i \in 1..Len(s) |-> Lower(s[i])]

\* re.findall(r"[A-Za-z']+", tok)[0].lower(), "" when the token has no letter
FirstWord(tok) ==
    CASE Lower(tok) = "write tests" -> "write"
      [] tok = "Set up database" -> "set"
      [] tok = "Fix login" -> "fix"
      [] tok = "implement API extract endpoint" -> "implement"
      [] tok = "Notes from meeting:" -> "notes"
      [] tok = "Some narrative sentence." -> "some"
      [] tok = "Fix the build." -> "fix"
      [] tok \in {"todo:", "[todo]"} -> "todo"
      [] OTHER -> ""

\* the token ends with one of . ! ?
EndsSentence(tok) == tok \in {"Some narrative sentence.", "Fix the build."}

\* the bullet character U+2022, a token of its own
BulletChar == "U+2022"

\* a token the first alternative group of BULLET_PREFIX_PATTERN matches: one
\* of - * U+2022, or digits and a dot
IsBullet(tok) == tok \in {"-", "*", BulletChar, "1."}

\* BULLET_PREFIX_PATTERN.match(s): the number of tokens matched, 0 for no match
BULLET_PREFIX_PATTERN(s) ==
    LET i == SkipWs(s, 1) IN
    IF i + 1 <= Len(s) /\ IsBullet(s[i]) /\ IsWs(s[i + 1]) THEN SkipWs(s, i + 1) - 1
    ELSE 0

KEYWORD_PREFIXES == {"todo:", "action:", "next:"}

is_action_line(line) ==
    LET stripped == LowerSeq(Strip(line)) IN
    IF stripped = <<>> THEN FALSE
    ELSE IF BULLET_PREFIX_PATTERN(stripped) > 0 THEN TRUE
    ELSE IF Head(stripped) \in KEYWORD_PREFIXES THEN TRUE
    ELSE "[ ]" \in Range(stripped) \/ "[todo]" \in Range(stripped)

\* str.removeprefix
RemovePrefix(s, tok) == IF s # <<>> /\ Head(s) = tok THEN Tail(s) ELSE s

\* lines 40-41 only: the bullet prefix removed, the markers kept
CleanedKeepingMarkers(line) ==
    Strip(SubSeq(line, BULLET_PREFIX_PATTERN(line) + 1, Len(line)))

\* lines 40-44: what is appended for an action line
Cleaned(line) ==
    LET unbulleted == Strip(SubSeq(line, BULLET_PREFIX_PATTERN(line) + 1, Len(line)))
        unchecked == Strip(RemovePrefix(unbulleted, "[ ]"))
    IN Strip(RemovePrefix(unchecked, "[todo]"))

\* lines 35-45: the for loop over the lines
RECURSIVE ExtractedLines(_)
ExtractedLines(lines) ==
    IF lines = <<>> THEN <<>>
    ELSE
        LET line == Strip(Head(lines)) IN
        (IF line # <<>> /\ is_action_line(line) THEN <<Cleaned(line)>> ELSE <<>>)
        \o ExtractedLines(Tail(lines))

\* re.split(r"(?<=[.!?])\s+", text)
RECURSIVE SplitSentences(_, _, _)
SplitSentences(text, cur, acc) ==
    IF text = <<>> THEN Append(acc, cur)
    ELSE IF IsWs(Head(text)) /\ cur # <<>> /\ EndsSentence(cur[Len(cur)])
         THEN SplitSentences(LStrip(text), <<>>, Append(acc, cur))
         ELSE SplitSentences(Tail(text), Append(cur, Head(text)), acc)

imperative_starters ==
    {"add", "create", "implement", "fix", "update", "write", "check", "verify",
     "refactor", "document", "design", "investigate"}

looks_imperative(sentence) ==
    LET words == SelectSeq(sentence, LAMBDA tok : FirstWord(tok) # "")
    IN words # <<>> /\ FirstWord(words[1]) \in imperative_starters

\* lines 47-54: the sentences kept when no line matched
RECURSIVE ImperativeSentences(_)
ImperativeSentences(sentences) ==
    IF sentences = <<>> THEN <<>>
    ELSE
        LET sentence == Strip(Head(sentences)) IN
        (IF sentence # <<>> /\ looks_imperative(sentence) THEN <<sentence>> ELSE <<>>)
        \o ImperativeSentences(Tail(sentences))

\* lines 56-63: the first of the items that are equal once lowered is kept
RECURSIVE Deduplicated(_, _)
Deduplicated(items, seen) ==
    IF items = <<>> THEN <<>>
    ELSE
        LET lowered == Concat(LowerSeq(Head(items))) IN
        IF lowered \in seen THEN Deduplicated(Tail(items), seen)
        ELSE <<Concat(Head(items))>> \o Deduplicated(Tail(items), seen \cup {lowered})

extract_action_items(text) ==
    LET extracted == ExtractedLines(SplitLines(text))
        items == IF extracted = <<>>
                 THEN ImperativeSentences(SplitSentences(Strip(text), <<>>, <<>>))
                 ELSE extracted
    IN Deduplicated(items, {})
(***************************************************************************)
(* extract_action_items on its own: the caller writes a note line by line. *)
(***************************************************************************)
MaxNoteLines == 2

\* a line of a note: its bullet, number or keyword, its marker, its text
NoteLine(prefix, marker, body) == [prefix |-> prefix, marker |-> marker, body |-> body]

\* the lines of test_extract_bullets_and_checkboxes, and a bullet line that
\* differs from another in letter case only, a [todo] line, a checkbox
\* without bullet, a keyword line and an imperative sentence
NoteLines ==
    { NoteLine("-", "[ ]", "Set up database"),
      NoteLine("*", "", "implement API extract endpoint"),
      NoteLine("1.", "", "Write tests"),
      NoteLine(BulletChar, "", "write tests"),
      NoteLine("-", "[todo]", "Fix login"),
      NoteLine("", "[ ]", "Write tests"),
      NoteLine("todo:", "", "Write tests"),
      NoteLine("", "", "Notes from meeting:"),
      NoteLine("", "", "Some narrative sentence."),
      NoteLine("", "", "Fix the build.") }

\* the characters of a line, indented as in the test
NoteLineText(l) ==
    <<" ", " ">>
    \o (IF l.prefix = "" THEN <<>> ELSE <<l.prefix, " ">>)
    \o (IF l.marker = "" THEN <<>> ELSE <<l.marker, " ">>)
    \o <<l.body>>

NoteText(lines) == Join([i \in 1..Len(lines) |-> NoteLineText(lines[i])], <<"\n">>)

Notes == {[lines |-> ls, text |-> NoteText(ls)] : ls \in SeqUpTo(NoteLines, MaxNoteLines)}

InitExtract ==
    /\ pc = "extract"
    /\ EngineIdle
    /\ fn_input \in Notes
    /\ fn_output = <<>>
    /\ fn_calls = 0

ExtractItems ==
    /\ pc = "extract"
    /\ fn_output' = extract_action_items(fn_input.text)
    /\ pc' = "extracted"
    /\ UNCHANGED <<fn_input, fn_calls, conversation_vars, remote_vars>>

NextExtract == ExtractItems

SpecExtract == InitExtract /\ [][NextExtract]_vars

\* a bullet, a numbered item or a checkbox line
IsMarkedLine(l) == IsBullet(l.prefix) \/ l.marker = "[ ]"

\* neither marked nor introduced by a keyword
IsNarrativeLine(l) == l.prefix = "" /\ l.marker = ""

\* the text of a marked line without its prefix and without the markers given
TextWithout(l, markers) ==
    IF l.marker = "" \/ l.marker \in markers THEN l.body
    ELSE l.marker \o " " \o l.body

\* no narrative line is returned when a marked line is there
NoNarrativeReturned ==
    LET lines == fn_input.lines IN
    (\E i \in 1..Len(lines) : IsMarkedLine(lines[i]))
       => \A i \in 1..Len(lines) :
             IsNarrativeLine(lines[i]) => lines[i].body \notin Range(fn_output)

FirstAlike(lines, i) ==
    CHOOSE k \in 1..i :
        /\ IsMarkedLine(lines[k])
        /\ Lower(lines[k].body) = Lower(lines[i].body)
        /\ \A m \in 1..(k - 1) :
              ~(IsMarkedLine(lines[m]) /\ Lower(lines[m].body) = Lower(lines[i].body))

MaxTextLen == 3

\* the texts explored: blanks, tabs, line ends and words
LlmTexts == SeqUpTo({" ", "\t", "\n", "Write tests"}, MaxTextLen)

\* response["message"]["content"]: nothing, an array of strings, an array
\* with falsy items and numbers, an object, a text that is no JSON
LlmContents ==
    { <<>>,
      <<"[", Quote("a"), ",", " ", Quote("hi"), "]">>,
      <<"[", Quote(""), ",", "0", ",", "1", ",", "null", ",", Quote("a"), "]">>,
      <<"{", Quote("a"), ":", " ", "1", "}">>,
      <<"[", Quote("a")>> }

\* extract_action_items_llm testing "not text" only
ReturnsEarlyWhenEmpty(text) == text = <<>>

\* lines 91-92: not text or not text.strip()
ReturnsEarly(text) == text = <<>> \/ Strip(text) = <<>>

\* str(item)
PyStrOf(v) == IF v.k = "str" THEN v.s ELSE Concat(PyRepr(v))

\* lines 106-114: the items for the content of the response
LlmItems(content) ==
    IF content = <<>> THEN <<>>
    ELSE
        LET r == JsonLoads(content) IN
        IF r.ok /\ r.val.k = "list"
        THEN LET kept == SelectSeq(r.val.items, Truthy)
             IN [i \in 1..Len(kept) |-> PyStrOf(kept[i])]
        ELSE <<>>

InitExtractLlm ==
    /\ pc = "llm"
    /\ EngineIdle
    /\ fn_input \in LlmTexts
    /\ fn_output = <<>>
    /\ fn_calls = 0

\* lines 91-92
LlmReturnsEarly ==
    /\ pc = "llm"
    /\ ReturnsEarly(fn_input)
    /\ fn_output' = <<>>
    /\ pc' = "llm returned"
    /\ UNCHANGED <<fn_input, fn_calls, conversation_vars, remote_vars>>

\* lines 94-104: chat is called
LlmChat ==
    /\ pc = "llm"
    /\ ~ReturnsEarly(fn_input)
    /\ fn_calls' = fn_calls + 1
    /\ pc' = "llm chat"
    /\ UNCHANGED <<fn_input, fn_output, conversation_vars, remote_vars>>

\* lines 106-116: chat returned
LlmChatReturns ==
    /\ pc = "llm chat"
    /\ \E content \in LlmContents :
          /\ fn_output' = LlmItems(content)
          /\ stdout' = IF content = <<>> THEN stdout
                       ELSE Append(stdout, <<"LLM extraction content: ">> \o content)
    /\ pc' = "llm returned"
    /\ UNCHANGED <<fn_input, fn_calls, conversation_vars, TOOL_REGISTRY, inflight,
                   connections, list_calls, tool_calls>>

\* chat raised: nothing in extract_action_items_llm catches it
LlmChatRaises ==
    /\ pc = "llm chat"
    /\ exc' = "ResponseError"
    /\ pc' = "llm raised"
    /\ UNCHANGED <<fn_input, fn_output, fn_calls, remote_vars, server_url,
                   system_prompt, conversation, tool_invocations, inv_idx,
                   llm_messages, model_calls, inputs_read, assistant_response, resps>>

NextExtractLlm ==
    \/ LlmReturnsEarly
    \/ LlmChat
    \/ LlmChatReturns
    \/ LlmChatRaises

SpecExtractLlm == InitExtractLlm /\ [][NextExtractLlm]_vars

\* the text is empty or made of white space only
IsBlankText(text) == \A i \in 1..Len(text) : text[i] \in {" ", "\t", "\n"}

\* C16: for every empty or whitespace-only input extract_action_items_llm
\* returns the empty list, and it does so without calling the language
\* model.
C16_BlankInputNoModelCall ==
    IsBlankText(fn_input) =>
       /\ fn_calls = 0
       /\ pc \in {"llm", "llm returned"}
       /\ pc = "llm returned" => fn_output = <<>>

\* the second input of test_extract_llm_empty_input, shortened, was answered
C16_Witness ==
    /\ pc = "llm returned"
    /\ fn_input = <<" ", "\n", "\t">>
    /\ fn_output = <<>>
    /\ fn_calls = 0
(***************************************************************************)
(* Properties of the conversation engine: arguments, failures of the       *)
(* model, the end of input, connections.                                   *)
(***************************************************************************)
\* the step sends a call_tool request
IsToolCallStep == tool_calls' = tool_calls + 1

\* C17: every call_tool request carries a mapping as arguments: an
\* invocation of a registered tool whose parsed JSON value is not an object
\* is sent with the empty mapping, and is sent, not dropped.
C17_ArgumentsAreMapping ==
    /\ [](\A i \in 1..Len(inflight) :
             inflight[i].op = "call_tool" => inflight[i].arguments.k = "dict")
    /\ [][ (pc = "tools"
            /\ NextInvocation(tool_invocations, inv_idx).name \in RegistryNames(TOOL_REGISTRY))
           => LET inv == NextInvocation(tool_invocations, inv_idx) IN
              /\ IsToolCallStep
              /\ inflight' = <<[op |-> "call_tool", name |-> inv.name,
                                arguments |-> IF inv.args.k = "dict" THEN inv.args
                                              ELSE PyDict(<<>>)]>>
         ]_vars

\* the directive echo([1, 2]) was sent to the service with {} as arguments
C17_Witness ==
    /\ pc = "toolcall"
    /\ NextInvocation(tool_invocations, inv_idx)
          = [name |-> "echo", args |-> PyList(<<PyInt(1), PyInt(2)>>)]
    /\ inflight = <<[op |-> "call_tool", name |-> "echo", arguments |-> PyDict(<<>>)]>>

\* the errors of a model turn
ModelErrors == {"APIError", "AttributeError"}

\* C18: a failure of the model call is not recovered: the step in which the
\* call raises ends the session without appending a message, and after it
\* no message is appended, no tool is executed and no input is read.
C18_ModelFailureEndsSession ==
    /\ [](exc \in ModelErrors => pc = "crashed")
    /\ [][ /\ (IsModelStep /\ exc' # "")
              => /\ exc' \in ModelErrors
                 /\ pc' = "crashed"
                 /\ conversation' = conversation
                 /\ tool_calls' = tool_calls
                 /\ inputs_read' = inputs_read
           /\ exc \notin ModelErrors
         ]_vars

\* the second model call of a session raised
C18_Witness ==
    /\ pc = "crashed"
    /\ exc = "APIError"
    /\ model_calls = 2
    /\ conversation[Len(conversation)].role = "user"

\* C19: in AwaitingUserInput an end-of-input or interrupt ends the session
\* with no user message appended and no model call or tool call after it; a
\* received line appends exactly one user message and moves to the model
\* turn.
C19_EndOfInputTerminates ==
    [][ /\ pc = "awaiting"
           => /\ model_calls' = model_calls
              /\ tool_calls' = tool_calls
              /\ \/ /\ inputs_read' = inputs_read + 1
                    /\ Len(conversation') = Len(conversation) + 1
                    /\ SubSeq(conversation', 1, Len(conversation)) = conversation
                    /\ conversation'[Len(conversation')].role = "user"
                    /\ \E line \in UserLines :
                          conversation'[Len(conversation')].content = Strip(line)
                    /\ pc' = "model"
                 \/ /\ inputs_read' = inputs_read
                    /\ conversation' = conversation
                    /\ pc' = "ended"
        /\ pc # "ended"
      ]_vars

\* the session ended on end of input after one line had been answered
C19_Witness ==
    /\ pc = "ended"
    /\ inputs_read = 1
    /\ model_calls = 1
    /\ Len(conversation) = 3

\* C20: a connection lives for one request: discovery and every tool call
\* open a fresh one and release it before returning, also when the request
\* fails; at most one is open at any time and none while the engine awaits
\* input or calls the model.
C20_ConnectionPerRequest ==
    /\ [](/\ connections = Len(inflight)
          /\ connections <= 1
          /\ connections = 1 <=> pc \in {"discovering", "toolcall"})
    /\ [][ /\ (list_calls' = list_calls + 1 \/ tool_calls' = tool_calls + 1)
              => connections = 0 /\ connections' = 1
           /\ pc \in {"discovering", "toolcall"} => connections' = 0
         ]_vars

\* a tool call and the discovery before it were made, the tool call raised
C20_Witness ==
    /\ connections = 0
    /\ list_calls = 1
    /\ tool_calls = 1
    /\ resps # <<>>
    /\ \E detail \in RemoteErrors : resps[Len(resps)] = FailedToolResult("echo", detail)
(***************************************************************************)
(* format_input_schema on its own: the caller registers one tool with a    *)
(* schema, renders its signature and builds the system prompt.             *)
(***************************************************************************)
MaxProps == 2

PropNames == {"text", "path", "follow"}

\* the properties explored: of type string, of type integer, of no type
SchemaProps ==
    {Prop(n, TRUE, t) : n \in PropNames, t \in {"string", "integer"}}
    \cup {Prop(n, FALSE, "") : n \in PropNames}

\* the "properties" mappings: keys are distinct
SchemaProperties ==
    {ps \in SeqUpTo(SchemaProps, MaxProps) :
        \A i, j \in 1..Len(ps) : ps[i].name = ps[j].name => i = j}

\* the "required" lists, one of them naming a property that is not declared
RequiredLists == {<<>>, <<"text">>, <<"path", "text">>, <<"follow", "size">>}

InputSchemas ==
    {[properties |-> ps, required |-> rq] : ps \in SchemaProperties, rq \in RequiredLists}

InitSignature ==
    /\ pc = "format"
    /\ EngineIdle
    /\ fn_input \in InputSchemas
    /\ fn_output = <<>>
    /\ fn_calls = 0

\* lines 145-146 and 155-162 for a registry holding one tool with the schema
FormatSchema ==
    /\ pc = "format"
    /\ LET registry ==
              <<[name |-> "tool", description |-> [none |-> TRUE, text |-> <<>>],
                 input_schema |-> fn_input]>>
       IN fn_output' = [signature |-> format_input_schema(fn_input),
                        prompt |-> get_full_system_prompt(registry)]
    /\ pc' = "formatted"
    /\ UNCHANGED <<fn_input, fn_calls, conversation_vars, remote_vars>>

NextSignature == FormatSchema

SpecSignature == InitSignature /\ [][NextSignature]_vars

\* the declared type of a property, any when it declares none
DeclaredType(prop) == IF prop.has_type THEN prop.type ELSE "any"

\* one property as the signature shows it
Rendered(schema, i) ==
    LET prop == schema.properties[i] IN
    IF \E k \in 1..Len(schema.required) : schema.required[k] = prop.name
    THEN prop.name \o ": " \o DeclaredType(prop)
    ELSE prop.name \o ": Optional[" \o DeclaredType(prop) \o "]"

\* the properties from the i-th on, separated by ", "
RECURSIVE RenderedFrom(_, _)
RenderedFrom(schema, i) ==
    IF i = Len(schema.properties) THEN Rendered(schema, i)
    ELSE Rendered(schema, i) \o ", " \o RenderedFrom(schema, i + 1)

\* C21: the signature of a tool lists every declared property of its input
\* schema in schema order, as "name: type" when the name is among the
\* required ones and as "name: Optional[type]" otherwise (type being any for
\* a property that declares none), and is "(no parameters)" when the schema
\* declares no property; it is the signature the system prompt shows.
C21_SignatureOfSchema ==
    pc = "formatted" =>
       /\ fn_output.signature
             = IF Len(fn_input.properties) = 0 THEN "(no parameters)"
               ELSE "(" \o RenderedFrom(fn_input, 1) \o ")"
       /\ \E i \in 1..Len(fn_output.prompt) :
             /\ fn_output.prompt[i] = "    Signature: "
             /\ fn_output.prompt[i + 1] = fn_output.signature

\* the schema {text: string, required} was rendered as (text: string)
C21_Witness ==
    /\ pc = "formatted"
    /\ fn_input = [properties |-> <<Prop("text", TRUE, "string")>>, required |-> <<"text">>]
    /\ fn_output.signature = "(text: string)"
(***************************************************************************)
(* Properties of the conversation engine: the roles of the history, the    *)
(* replies without a well-formed directive, the end of an operator turn.   *)
(***************************************************************************)
\* C22: in every reachable state every assistant message is immediately
\* preceded by a user message, no two assistant messages are adjacent, the
\* only system message is the first message, and when the engine awaits
\* input after at least one operator turn the last message is an assistant
\* message.
C22_RoleStructure ==
    /\ \A i \in 1..Len(conversation) :
          /\ conversation[i].role \in {"system", "user", "assistant"}
          /\ conversation[i].role = "system" <=> i = 1
          /\ conversation[i].role = "assistant"
                => i > 1 /\ conversation[i - 1].role = "user"
    /\ \A i \in 1..(Len(conversation) - 1) :
          ~(conversation[i].role = "assistant" /\ conversation[i + 1].role = "assistant")
    /\ (pc = "awaiting" /\ inputs_read >= 1)
          => conversation[Len(conversation)].role = "assistant"

\* the engine awaits input after a turn that ran a tool: the history ends
\* with a tool_result and the assistant message after it
C22_Witness ==
    /\ pc = "awaiting"
    /\ inputs_read = 1
    /\ Len(conversation) = 4
    /\ [i \in 1..4 |-> conversation[i].role] = <<"system", "user", "user", "assistant">>
    /\ IsToolResultMessage(conversation[3])
\* the reply "tool: echo()" / "tool: echo({bad})"
MalformedOnlyReply ==
    <<"tool:", " ", "echo", "(", ")", "\n", "tool:", " ", "echo", "(", "{", "bad", "}", ")">>

\* C23: a model reply whose tool: lines are all malformed is handled as a
\* final reply: the step executes no tool, appends the whole reply text,
\* malformed lines included, as one assistant message and returns to
\* awaiting input.
C23_MalformedOnlyIsFinal ==
    [][ (IsModelStep /\ exc' = "" /\ assistant_response'.text = MalformedOnlyReply)
           => /\ conversation'
                    = Append(conversation,
                             [role |-> "assistant", content |-> MalformedOnlyReply])
              /\ tool_invocations' = <<>>
              /\ tool_calls' = tool_calls
              /\ connections' = 0
              /\ pc' = "awaiting"
      ]_vars

\* the reply made of two malformed directives ended an operator turn
C23_Witness ==
    /\ pc = "awaiting"
    /\ inputs_read = 1
    /\ tool_calls = 0
    /\ MalformedOnlyReply \in Replies
    /\ conversation[Len(conversation)]
          = [role |-> "assistant", content |-> MalformedOnlyReply]
(***************************************************************************)
(* The engine with every model call and tool call returning and the model  *)
(* giving a reply without invocation at the latest at its MaxModelCalls-th *)
(* call. The loop is one thread: a step that can be taken is taken; only   *)
(* the operator may stay silent for ever.                                  *)
(***************************************************************************)
\* input() returns a line while the model has a call left to answer it
ReadInputAnswerable ==
    /\ model_calls < MaxModelCalls
    /\ ReadInput

\* execute_llm_call returns; its last reply carries no invocation
ModelRepliesEventuallyFinal ==
    /\ ModelReplies
    /\ model_calls' = MaxModelCalls => tool_invocations' = <<>>

NextReturning ==
    \/ Discover
    \/ DiscoverFails
    \/ DiscoverReturns
    \/ ReadInputAnswerable
    \/ EndOfInput
    \/ ModelRepliesEventuallyFinal
    \/ ToolUnknown
    \/ ToolCall
    \/ ToolReturns

SpecReturning ==
    /\ Init
    /\ [][NextReturning]_vars
    /\ WF_vars(Discover)
    /\ WF_vars(DiscoverFails \/ DiscoverReturns)
    /\ WF_vars(ModelRepliesEventuallyFinal)
    /\ WF_vars(ToolUnknown)
    /\ WF_vars(ToolCall)
    /\ WF_vars(ToolReturns)

\* the engine is back at input() with an assistant message as the last one
TurnEnded ==
    /\ pc = "awaiting"
    /\ conversation[Len(conversation)].role = "assistant"

\* C24: when every model call and tool call returns and the model
\* eventually gives a reply with zero invocations, every operator input is
\* eventually followed by an assistant message and a return to awaiting
\* input.
C24_EveryTurnEnds == (pc = "model") ~> TurnEnded

\* an operator turn ends as C24 says or with the TypeError of json.dumps
\* on a tool result
TurnEndsUnlessEncodingFails == (pc = "model") ~> (TurnEnded \/ exc = "TypeError")
(***************************************************************************)
(* week2 application: POST /action-items/{action_item_id}/done. fn_input   *)
(* is the request, fn_output the action_items table, what the last         *)
(* function returned and the response.                                     *)
(***************************************************************************)
MaxRows == 2

\* a row of action_items; done is stored as 0 or 1
ActionItemRow(id, note_id, text, done) ==
    [id |-> id, note_id |-> note_id, text |-> text, done |-> done,
     created_at |-> "2026-01-01 00:00:00"]

\* the tables explored: the ids are 1, 2, ... (AUTOINCREMENT)
ActionItemTables ==
    UNION { { [i \in 1..n |-> ActionItemRow(i, f[i][1], f[i][2], f[i][3])] :
                f \in [1..n -> {PyNone, PyInt(1)} \X {"Write tests", "Fix login"} \X {0, 1}] } :
            n \in 0..MaxRows }

\* the requests: a path parameter and an ActionItemUpdate
MarkDoneRequests ==
    {[action_item_id |-> id, done |-> dn] : id \in 1..(MaxRows + 1), dn \in BOOLEAN}

NoRow == [none |-> TRUE]

\* 1 if done else 0
StoredFlag(done) == IF done THEN 1 ELSE 0

\* bool(row["done"])
FlagOf(stored) == stored # 0

\* UPDATE action_items SET done = ? WHERE id = ?
Updated(rows, action_item_id, done) ==
    [i \in 1..Len(rows) |->
        IF rows[i].id = action_item_id
        THEN [rows[i] EXCEPT !.done = StoredFlag(done)]
        ELSE rows[i]]

\* SELECT ... FROM action_items WHERE id = ?, fetchone()
Fetched(rows, action_item_id) ==
    IF \E i \in 1..Len(rows) : rows[i].id = action_item_id
    THEN rows[CHOOSE i \in 1..Len(rows) : rows[i].id = action_item_id]
    ELSE NoRow

\* the ActionItemResponse of lines 62-68
ActionItemResponse(row) ==
    [id |-> row.id, note_id |-> row.note_id, text |-> row.text,
     done |-> FlagOf(row.done), created_at |-> row.created_at]

InitMarkDone ==
    /\ pc = "mark_done"
    /\ EngineIdle
    /\ \E rows \in ActionItemTables, request \in MarkDoneRequests :
          /\ fn_input = [rows |-> rows, request |-> request]
          /\ fn_output = [rows |-> rows, returned |-> NoRow, response |-> NoRow]
    /\ fn_calls = 0

\* db.py lines 154-170: the UPDATE and the SELECT run, the row is returned
\* and the connection commits, or NotFoundError leaves without a commit
update_done_status ==
    /\ pc = "mark_done"
    /\ LET request == fn_input.request
           rows == Updated(fn_output.rows, request.action_item_id, request.done)
           row == Fetched(rows, request.action_item_id)
       IN IF row = NoRow
          THEN /\ exc' = "NotFoundError"
               /\ pc' = "failed"
               /\ UNCHANGED fn_output
          ELSE /\ fn_output' = [fn_output EXCEPT !.rows = rows, !.returned = row]
               /\ pc' = "update_done_status returned"
               /\ exc' = exc
    /\ UNCHANGED <<fn_input, fn_calls, remote_vars, server_url, system_prompt,
                   conversation, tool_invocations, inv_idx, llm_messages,
                   model_calls, inputs_read, assistant_response, resps>>

\* db.py lines 18-20 and 171-172: sqlite3 raises, nothing is committed
update_done_status_fails ==
    /\ pc = "mark_done"
    /\ exc' = "DatabaseError"
    /\ pc' = "failed"
    /\ UNCHANGED <<fn_input, fn_output, fn_calls, remote_vars, server_url,
                   system_prompt, conversation, tool_invocations, inv_idx,
                   llm_messages, model_calls, inputs_read, assistant_response, resps>>

\* db.py lines 203-205: the row is dropped, the function returns None
mark_action_item_done ==
    /\ pc = "update_done_status returned"
    /\ fn_output' = [fn_output EXCEPT !.returned = NoRow]
    /\ pc' = "mark_action_item_done returned"
    /\ UNCHANGED <<fn_input, fn_calls, conversation_vars, remote_vars>>

\* action_items.py lines 61-68: the response is built from row
mark_done ==
    /\ pc = "mark_action_item_done returned"
    /\ IF fn_output.returned = NoRow
       THEN /\ exc' = "TypeError"
            /\ pc' = "failed"
            /\ UNCHANGED fn_output
       ELSE /\ fn_output' = [fn_output EXCEPT
                                !.response = ActionItemResponse(fn_output.returned)]
            /\ pc' = "responded"
            /\ exc' = exc
    /\ UNCHANGED <<fn_input, fn_calls, remote_vars, server_url, system_prompt,
                   conversation, tool_invocations, inv_idx, llm_messages,
                   model_calls, inputs_read, assistant_response, resps>>

NextMarkDone ==
    \/ update_done_status
    \/ update_done_status_fails
    \/ mark_action_item_done
    \/ mark_done

SpecMarkDone == InitMarkDone /\ [][NextMarkDone]_vars

\* the request is over
MarkDoneOver == pc \in {"responded", "failed"}

\* the item the request names, as it was before the request
RequestedItem == Fetched(fn_input.rows, fn_input.request.action_item_id)

\* the table with the requested flag on the requested item
TableWithFlag ==
    [i \in 1..Len(fn_input.rows) |->
        IF fn_input.rows[i].id = fn_input.request.action_item_id
        THEN [fn_input.rows[i] EXCEPT !.done = IF fn_input.request.done THEN 1 ELSE 0]
        ELSE fn_input.rows[i]]

\* C25: marking an existing action item done or not done through mark_done
\* stores the requested flag and responds with the item's id, note_id, text
\* and created_at and with done equal to the requested value; for an id
\* that does not exist the request ends in a not-found error and no row is
\* changed. (A request the database fails is left aside.)
C25_MarkDoneResponds ==
    (MarkDoneOver /\ exc # "DatabaseError") =>
       IF RequestedItem # NoRow
       THEN /\ pc = "responded"
            /\ fn_output.rows = TableWithFlag
            /\ fn_output.response
                  = [id |-> RequestedItem.id, note_id |-> RequestedItem.note_id,
                     text |-> RequestedItem.text, done |-> fn_input.request.done,
                     created_at |-> RequestedItem.created_at]
       ELSE /\ exc = "NotFoundError"
            /\ fn_output.rows = fn_input.rows

\* what holds of C25: the flag is stored for an existing item, and an id
\* that does not exist ends in NotFoundError with the table unchanged
MarkDoneStoresFlag ==
    (MarkDoneOver /\ exc # "DatabaseError") =>
       IF RequestedItem # NoRow
       THEN fn_output.rows = TableWithFlag
       ELSE exc = "NotFoundError" /\ fn_output.rows = fn_input.rows

\* every request for an existing item that the database serves ends in the
\* TypeError of line 63
MarkDoneNeverResponds ==
    /\ pc # "responded"
    /\ (MarkDoneOver /\ exc # "DatabaseError" /\ RequestedItem # NoRow) => exc = "TypeError"
====
